---- MODULE Spec2Model ----
(***************************************************************************)
(* packrat: checks the dependency versions of a package.json against the   *)
(* NPM registry.  Two flows are modelled:                                  *)
(*   - the interactive flow (src/src/application.rs, src/src/project.rs):  *)
(*     selection state, event loop, fetch stream, update of package.json;  *)
(*   - the batch flow (src/src/main.rs, src/src/package.rs).               *)
(* Strings the code inspects character by character (package names,       *)
(* version strings) are sequences of one-character strings.                *)
(***************************************************************************)
EXTENDS Integers, Sequences, FiniteSets, TLC

(***************************************************************************)
(* Bounds of the model.                                                    *)
(***************************************************************************)
\* Dependencies (rows of both tables together) of the manifests Init draws.
MaxDeps == 3
\* In a build without overflow checks and with an empty active table the
\* cursor is unbounded; the model follows it this many steps from either end.
MaxCursor == 2
\* Fetches that may fail in one run.
MaxFail == 1

(***************************************************************************)
(* Values.                                                                 *)
(***************************************************************************)
\* TableState::default(): nothing selected.
None == -1
\* Stands for usize::MAX, the value 0usize - 1 wraps to.
UsizeMax == 2147483647

NameScoped == <<"@", "s", "/", "c">>
NameA == <<"a">>
\* The package names manifests are drawn from, in the key order of the map.
PkgNames == <<NameScoped, NameA>>

\* The version range a manifest records for a package, by table.
CurrentVersion(table, name) ==
    IF table = "Runtime"
    THEN IF name = NameScoped THEN <<"^", "1", ".", "2", ".", "3">>
         ELSE <<"1", ".", "0", ".", "0">>
    ELSE IF name = NameScoped THEN <<"1", ".", "2", ".", "0">>
         ELSE <<"~", "1", ".", "0", ".", "0">>

\* dist-tags.latest of a package in the registry.
Latest(name) ==
    IF name = NameScoped THEN <<"1", ".", "3", ".", "0">>
    ELSE <<"2", ".", "0", ".", "0">>

\* The sequence of the elements of PkgNames whose positions are in S, in order.
RECURSIVE Pick(_, _)
Pick(S, i) ==
    IF i > Len(PkgNames) THEN <<>>
    ELSE (IF i \in S THEN <<PkgNames[i]>> ELSE <<>>) \o Pick(S, i + 1)

\* One dependency mapping: name -> version range, keys distinct, in key order.
Table(table, S) ==
    LET ns == Pick(S, 1)
    IN  [i \in 1..Len(ns) |-> [name |-> ns[i], version |-> CurrentVersion(table, ns[i])]]

RowSets == SUBSET (1..Len(PkgNames))

\* The package.json documents a run may start from.
Manifests ==
    {[dependencies |-> Table("Runtime", rd[1]), devDependencies |-> Table("Dev", rd[2])] :
        rd \in {x \in RowSets \X RowSets : Cardinality(x[1]) + Cardinality(x[2]) <= MaxDeps}}

VARIABLES
    flow,                          \* "interactive" (application.rs) or "batch" (main.rs)
    pc,                            \* interactive: "new", "loop", "done", "panicked";
                                   \* batch: "fetching", "classify", "report", "prompt",
                                   \* "exit_0", "exit_1", "panicked";
                                   \* the stream alone: "stream"; one function alone: "update"
    overflow_checks,               \* "unknown" until the first overflow, then "on" or "off"
    directory,                     \* args.directory: "None" or "Some"
    files,                         \* the package.json in the working directory and in the directory argument
    project,                       \* Application.project.values
    fetched_packages,              \* Application.fetched_packages: a set of [name, version], one per name
    dependencies_len,
    dev_dependencies_len,
    active_table,
    dependencies_table_state,      \* selected row or None
    dev_dependencies_table_state,
    update_index,
    dev_update_index,
    stream,                        \* the buffer_unordered stream of fetches
    metadata,                      \* batch: the results collected from the stream, in order
    reports,                       \* batch: the four buckets of reports and their dev indices
    answer,                        \* batch: the latest line read at the prompt
    frames,                        \* parity of the frames the loop has drawn
    last_update,                   \* how the latest update_package_json ended
    rx,                            \* the events in the mpsc channel of event_loop, oldest first
    tx,                            \* the sender the producer task owns: "none", "open" or "dropped"
    terminal,                      \* "initial", "claimed" or "restored"
    restorations                   \* how many times the terminal has been restored

selection == <<active_table, dependencies_table_state, dev_dependencies_table_state,
               update_index, dev_update_index>>
\* The channel, its producer and the terminal: what run and event_loop set up.
io == <<rx, tx, terminal, restorations>>
\* What is set at startup and never changes.
fixed == <<flow, directory, dependencies_len, dev_dependencies_len>>
batch == <<metadata, reports, answer>>
\* Everything but the frames drawn.
app == <<pc, overflow_checks, files, project, fetched_packages, fixed, io, batch,
         selection, stream, last_update>>
vars == <<app, frames>>

(***************************************************************************)
(* Application::new                                                        *)
(***************************************************************************)
\* The path the manifest is loaded from.
ManifestPath(dir) == IF dir = "Some" THEN "dir" ELSE "cwd"

ActiveNewDevFirst(rt_len, dev_len) ==
    IF dev_len # 0 THEN "Dev" ELSE "Runtime"

ActiveNew(rt_len, dev_len) ==
    IF rt_len # 0 THEN "Runtime"
    ELSE IF dev_len # 0 THEN "Dev"
    ELSE "Runtime"

SelectedNew(len) == IF len # 0 THEN 0 ELSE None

EmptyStream == [launched |-> 0, in_flight |-> {}, yielded |-> {}]

\* The buckets and dev indices main starts with.
NoReports ==
    [patch_updates |-> <<>>, patch_dev_index |-> 0,
     minor_updates |-> <<>>, minor_dev_index |-> 0,
     major_updates |-> <<>>, major_dev_index |-> 0,
     pre_v1_updates |-> <<>>, pre_v1_dev_index |-> 0]

\* Before run: no channel, and the terminal as the shell left it.
NotRunning ==
    /\ rx = <<>>
    /\ tx = "none"
    /\ terminal = "initial"
    /\ restorations = 0

\* The state Application::new (or the start of main) builds from the document.
Startup ==
    /\ NotRunning
    /\ overflow_checks = "unknown"
    /\ files = [p \in {"cwd", "dir"} |->
                  IF p = ManifestPath(directory) THEN <<project>> ELSE <<>>]
    /\ fetched_packages = {}
    /\ dependencies_len = Len(project.dependencies)
    /\ dev_dependencies_len = Len(project.devDependencies)
    /\ active_table = ActiveNew(dependencies_len, dev_dependencies_len)
    /\ dependencies_table_state = SelectedNew(dependencies_len)
    /\ dev_dependencies_table_state = SelectedNew(dev_dependencies_len)
    /\ update_index = {}
    /\ dev_update_index = {}
    /\ stream = EmptyStream
    /\ metadata = <<>>
    /\ reports = NoReports
    /\ answer = "none"
    /\ frames = 0
    /\ last_update = "none"

Init ==
    /\ flow = "interactive"
    /\ pc = "new"
    /\ directory \in {"None", "Some"}
    /\ project \in Manifests
    /\ Startup

(***************************************************************************)
(* Selection state: switch_table, next, previous, toggle_update            *)
(***************************************************************************)
ActiveLen == IF active_table = "Runtime" THEN dependencies_len ELSE dev_dependencies_len

ActiveSelected ==
    IF active_table = "Runtime" THEN dependencies_table_state
    ELSE dev_dependencies_table_state

\* state.select(Some(i)) on the active table's TableState.
SelectActive(i) ==
    /\ IF active_table = "Runtime"
       THEN /\ dependencies_table_state' = i
            /\ UNCHANGED dev_dependencies_table_state
       ELSE /\ dev_dependencies_table_state' = i
            /\ UNCHANGED dependencies_table_state
    /\ UNCHANGED <<active_table, update_index, dev_update_index>>

\* len - 1 on usize, as a build without overflow checks computes it.
LenMinusOne(len) == IF len = 0 THEN UsizeMax ELSE len - 1

\* The indices the model follows when the cursor leaves [0, len).
InModel(i) == i <= MaxCursor \/ i >= UsizeMax - MaxCursor

SwitchedNoGuard(active, rt_len, dev_len) ==
    IF active = "Runtime" THEN "Dev" ELSE "Runtime"

Switched(active, rt_len, dev_len) ==
    IF rt_len = 0 \/ dev_len = 0 THEN active
    ELSE IF active = "Runtime" THEN "Dev" ELSE "Runtime"

switch_table ==
    /\ active_table' = Switched(active_table, dependencies_len, dev_dependencies_len)
    /\ UNCHANGED <<dependencies_table_state, dev_dependencies_table_state,
                   update_index, dev_update_index>>

NextIndexNoWrap(i, len) ==
    IF i = None THEN 0 ELSE IF i > LenMinusOne(len) THEN 0 ELSE i + 1

NextIndex(i, len) ==
    IF i = None THEN 0 ELSE IF i >= LenMinusOne(len) THEN 0 ELSE i + 1

\* Whether next evaluates len - 1 with len = 0.
NextOverflows(i, len) == i # None /\ len = 0

next == SelectActive(NextIndex(ActiveSelected, ActiveLen))

PreviousIndex(i, len) ==
    IF i = None THEN 0 ELSE IF i = 0 THEN LenMinusOne(len) ELSE i - 1

\* Whether previous evaluates len - 1 with len = 0.
PreviousOverflows(i, len) == i = 0 /\ len = 0

previous == SelectActive(PreviousIndex(ActiveSelected, ActiveLen))

\* selected().unwrap_or(0)
UnwrapOr0(i) == IF i = None THEN 0 ELSE i

ToggledAddOnly(set, i) == set \cup {i}

Toggled(set, i) == IF i \in set THEN set \ {i} ELSE set \cup {i}

toggle_update ==
    /\ IF active_table = "Runtime"
       THEN /\ update_index' = Toggled(update_index, UnwrapOr0(dependencies_table_state))
            /\ UNCHANGED dev_update_index
       ELSE /\ dev_update_index' = Toggled(dev_update_index,
                                           UnwrapOr0(dev_dependencies_table_state))
            /\ UNCHANGED update_index
    /\ UNCHANGED <<active_table, dependencies_table_state, dev_dependencies_table_state>>

(***************************************************************************)
(* Project::update_dependency_version (src/src/project.rs)                 *)
(***************************************************************************)
\* str::replace of the one-character pattern c by the string r.
RECURSIVE ReplaceChar(_, _, _)
ReplaceChar(s, c, r) ==
    IF s = <<>> THEN <<>>
    ELSE (IF Head(s) = c THEN r ELSE <<Head(s)>>) \o ReplaceChar(Tail(s), c, r)

\* str::replace of the two-character pattern c1 c2 by the string r.
RECURSIVE ReplacePair(_, _, _, _)
ReplacePair(s, c1, c2, r) ==
    IF Len(s) < 2 THEN s
    ELSE IF s[1] = c1 /\ s[2] = c2 THEN r \o ReplacePair(SubSeq(s, 3, Len(s)), c1, c2, r)
    ELSE <<s[1]>> \o ReplacePair(Tail(s), c1, c2, r)

\* name.replace('/', "~1")
PointerToken(name) == ReplaceChar(name, "/", <<"~", "1">>)

\* The key serde_json's pointer_mut looks up for a reference token:
\* "~1" decoded to "/", then "~0" to "~".
DecodeToken(tok) == ReplacePair(ReplacePair(tok, "~", "1", <<"/">>), "~", "0", <<"~">>)

\* The positions of a mapping whose key is k (at most one).
Lookup(table, k) == {i \in 1..Len(table) : table[i].name = k}

\* range_symbol.to_string() + version, or the bare version.
Prefixed(range_prefix, version) == range_prefix \o version

SetVersion(table, i, v) == [table EXCEPT ![i].version = v]

UpdateDependencyVersion(doc, name, version, range_prefix) ==
    LET k == DecodeToken(PointerToken(name))
        v == Prefixed(range_prefix, version)
        rt == Lookup(doc.dependencies, k)
        dv == Lookup(doc.devDependencies, k)
    IN  IF rt # {}
        THEN [doc EXCEPT !.dependencies = SetVersion(@, CHOOSE i \in rt : TRUE, v)]
        ELSE IF dv # {}
        THEN [doc EXCEPT !.devDependencies = SetVersion(@, CHOOSE i \in dv : TRUE, v)]
        ELSE doc

(***************************************************************************)
(* Application::update_package_json                                        *)
(***************************************************************************)
\* fetched_packages.get(name): the versions recorded for name (at most one).
Fetched(fetched, name) == {e.version : e \in {f \in fetched : f.name = name}}

InsertedAlone(fetched, name, version) == {[name |-> name, version |-> version]}

InsertedKeyedByVersion(fetched, name, version) ==
    fetched \cup {[name |-> version, version |-> version]}

\* fetched_packages.insert(name, version)
Inserted(fetched, name, version) ==
    {f \in fetched : f.name # name} \cup {[name |-> name, version |-> version]}

\* The first character of the version if it is ~ or ^, else none.
RangePrefix(version) ==
    IF version # <<>> /\ Head(version) \in {"~", "^"} THEN <<Head(version)>> ELSE <<>>

RECURSIVE UpdateRowsSkipsUnfetched(_, _, _, _, _)
UpdateRowsSkipsUnfetched(doc, rows, toggled, fetched, i) ==
    IF i > Len(rows) THEN [doc |-> doc, panicked |-> FALSE]
    ELSE IF (i - 1) \notin toggled \/ Fetched(fetched, rows[i].name) = {}
    THEN UpdateRowsSkipsUnfetched(doc, rows, toggled, fetched, i + 1)
    ELSE UpdateRowsSkipsUnfetched(
             UpdateDependencyVersion(doc, rows[i].name,
                 CHOOSE v \in Fetched(fetched, rows[i].name) : TRUE,
                 RangePrefix(rows[i].version)),
             rows, toggled, fetched, i + 1)

\* One of the two loops: rows i.. of `rows` (the clone's mapping), `toggled` the
\* table's toggle set (0-based).  Ends at the first toggled row with no fetched
\* version (the expect panics), with the document as mutated so far.
RECURSIVE UpdateRows(_, _, _, _, _)
UpdateRows(doc, rows, toggled, fetched, i) ==
    IF i > Len(rows) THEN [doc |-> doc, panicked |-> FALSE]
    ELSE IF (i - 1) \notin toggled THEN UpdateRows(doc, rows, toggled, fetched, i + 1)
    ELSE IF Fetched(fetched, rows[i].name) = {} THEN [doc |-> doc, panicked |-> TRUE]
    ELSE UpdateRows(
             UpdateDependencyVersion(doc, rows[i].name,
                 CHOOSE v \in Fetched(fetched, rows[i].name) : TRUE,
                 RangePrefix(rows[i].version)),
             rows, toggled, fetched, i + 1)

\* Both loops over the clone taken on entry.
UpdateAll(doc, toggled, dev_toggled, fetched) ==
    LET rt == UpdateRows(doc, doc.dependencies, toggled, fetched, 1)
    IN  IF rt.panicked THEN rt
        ELSE UpdateRows(rt.doc, doc.devDependencies, dev_toggled, fetched, 1)

\* Project::write_to_file: File::create("./package.json") and write_all.
Written(fs, dir, doc) == [fs EXCEPT !["cwd"] = <<doc>>]

NothingToUpdateNever(toggled, dev_toggled) == FALSE

\* The early return of update_package_json.
NothingToUpdate(toggled, dev_toggled) == toggled = {} /\ dev_toggled = {}

update_package_json ==
    IF NothingToUpdate(update_index, dev_update_index)
    THEN /\ last_update' = "noop"
         /\ UNCHANGED <<pc, project, files>>
    ELSE LET r == UpdateAll(project, update_index, dev_update_index, fetched_packages)
         IN  /\ project' = r.doc
             /\ IF r.panicked
                THEN /\ pc' = "panicked"
                     /\ last_update' = "panicked"
                     /\ UNCHANGED files
                ELSE /\ files' = Written(files, directory, r.doc)
                     /\ last_update' = "written"
                     /\ UNCHANGED pc

(***************************************************************************)
(* The fetch stream: stream::iter(names).map(fetch_metadata)               *)
(*                       .buffer_unordered(ceiling)                        *)
(* launched: names taken from the iterator; in_flight: the fetches in the  *)
(* buffer, started and not completed; yielded: the results handed to the   *)
(* consumer, each [idx, result].  A fetch makes progress only when the     *)
(* stream is polled, and the poll in which it completes yields its result. *)
(***************************************************************************)
\* buffer_unordered(10) of the event loop and buffer_unordered(8) of the batch flow.
InteractiveCeiling == 10
BatchCeiling == 8

Ceiling(f) == IF f = "interactive" THEN InteractiveCeiling ELSE BatchCeiling

\* The names submitted: the keys of dependencies, then those of devDependencies.
Submitted(doc) ==
    [i \in 1..(Len(doc.dependencies) + Len(doc.devDependencies)) |->
        IF i <= Len(doc.dependencies) THEN doc.dependencies[i].name
        ELSE doc.devDependencies[i - Len(doc.dependencies)].name]

Min(a, b) == IF a < b THEN a ELSE b

FilledOnePastCeiling(st, n, ceiling) ==
    LET k == Min(n - st.launched, ceiling + 1 - Cardinality(st.in_flight))
    IN  IF k <= 0 THEN st
        ELSE [st EXCEPT !.launched = @ + k,
                        !.in_flight = @ \cup ((st.launched + 1)..(st.launched + k))]

\* The first half of a poll: fetches are started while the buffer holds fewer
\* than `ceiling` and the iterator has names left.
Filled(st, n, ceiling) ==
    LET k == Min(n - st.launched, ceiling - Cardinality(st.in_flight))
    IN  IF k <= 0 THEN st
        ELSE [st EXCEPT !.launched = @ + k,
                        !.in_flight = @ \cup ((st.launched + 1)..(st.launched + k))]

YieldedAbortOnErr(st, i, r) ==
    IF r = "err"
    THEN [st EXCEPT !.in_flight = {},
                    !.yielded = @ \cup {[idx |-> i, result |-> r]}]
    ELSE [st EXCEPT !.in_flight = @ \ {i}, !.yielded = @ \cup {[idx |-> i, result |-> r]}]

\* The second half of a poll: fetch i completes with result r ("ok" or "err"),
\* leaves the buffer and is yielded.
Yielded(st, i, r) ==
    [st EXCEPT !.in_flight = @ \ {i}, !.yielded = @ \cup {[idx |-> i, result |-> r]}]

Errors(st) == {e \in st.yielded : e.result = "err"}

\* The results a fetch may complete with, within the bound on failures.
Results(st) == IF Cardinality(Errors(st)) < MaxFail THEN {"ok", "err"} ELSE {"ok"}

\* The stream has ended: every name was taken and every fetch has completed.
Exhausted(st, n) == st.launched = n /\ st.in_flight = {}

(***************************************************************************)
(* Application::run and Application::event_loop.  Each action below is one *)
(* iteration of the loop: the event select! yields, and its dispatch.      *)
(***************************************************************************)
Panic == pc' = "panicked"

\* One iteration: the frame is drawn, then select! waits for an event.
Iteration == pc = "loop" /\ frames' = 1 - frames

\* An arithmetic step that overflows panics in a build with overflow checks
\* and wraps in one without; the build is the same for the whole run.
Checked(overflows, effect) ==
    IF overflows
    THEN \/ /\ overflow_checks \in {"unknown", "on"}
            /\ overflow_checks' = "on"
            /\ Panic
            /\ UNCHANGED selection
         \/ /\ overflow_checks \in {"unknown", "off"}
            /\ overflow_checks' = "off"
            /\ effect
            /\ UNCHANGED pc
    ELSE effect /\ UNCHANGED <<overflow_checks, pc>>

\* run: the terminal is claimed and the loop entered.
Run ==
    /\ pc = "new"
    /\ pc' = "loop"
    /\ UNCHANGED <<overflow_checks, files, project, fetched_packages, fixed, io, batch,
                   selection, stream, last_update, frames>>

KeyDown ==
    /\ Iteration
    /\ InModel(NextIndex(ActiveSelected, ActiveLen))
    /\ Checked(NextOverflows(ActiveSelected, ActiveLen), next)
    /\ UNCHANGED <<files, project, fetched_packages, fixed, io, batch, stream, last_update>>

KeyUp ==
    /\ Iteration
    /\ InModel(PreviousIndex(ActiveSelected, ActiveLen))
    /\ Checked(PreviousOverflows(ActiveSelected, ActiveLen), previous)
    /\ UNCHANGED <<files, project, fetched_packages, fixed, io, batch, stream, last_update>>

\* Tab or BackTab.
KeyTab ==
    /\ Iteration
    /\ switch_table
    /\ UNCHANGED <<pc, overflow_checks, files, project, fetched_packages, fixed, io, batch,
                   stream, last_update>>

\* Enter or Space.
KeyToggle ==
    /\ Iteration
    /\ toggle_update
    /\ UNCHANGED <<pc, overflow_checks, files, project, fetched_packages, fixed, io, batch,
                   stream, last_update>>

KeyUClearsToggles ==
    /\ Iteration
    /\ update_package_json
    /\ update_index' = {} /\ dev_update_index' = {}
    /\ UNCHANGED <<overflow_checks, fetched_packages, fixed, io, batch, active_table,
                   dependencies_table_state, dev_dependencies_table_state, stream>>

KeyU ==
    /\ Iteration
    /\ update_package_json
    /\ UNCHANGED <<overflow_checks, fetched_packages, fixed, io, batch, selection, stream>>

KeyQuitDrains ==
    /\ Iteration
    /\ pc' = IF Exhausted(stream, Len(Submitted(project))) THEN "done" ELSE pc
    /\ UNCHANGED <<overflow_checks, files, project, fetched_packages, fixed, io, batch,
                   selection, stream, last_update>>

\* Esc, q or Q: break.
KeyQuit ==
    /\ Iteration
    /\ pc' = "done"
    /\ UNCHANGED <<overflow_checks, files, project, fetched_packages, fixed, io, batch,
                   selection, stream, last_update>>

KeyOtherToggles ==
    /\ Iteration
    /\ toggle_update
    /\ UNCHANGED <<pc, overflow_checks, files, project, fetched_packages, fixed, io, batch,
                   stream, last_update>>

\* Any other key.
KeyOther ==
    /\ Iteration
    /\ UNCHANGED app

Tick ==
    /\ Iteration
    /\ UNCHANGED app

\* The fetch-result arm: Ok is merged into fetched_packages, Err reaches todo!().
FetchDispatched(fetched, name, r) ==
    IF r = "ok"
    THEN [fetched |-> Inserted(fetched, name, Latest(name)), panicked |-> FALSE]
    ELSE [fetched |-> fetched, panicked |-> TRUE]

\* The stream is polled, fetch i completes with result r and is dispatched.
FetchResult(i, r) ==
    LET names == Submitted(project)
        st == Filled(stream, Len(names), Ceiling(flow))
    IN  /\ Iteration
        /\ i \in st.in_flight
        /\ r \in Results(st)
        /\ stream' = Yielded(st, i, r)
        /\ LET d == FetchDispatched(fetched_packages, names[i], r)
           IN  /\ fetched_packages' = d.fetched
               /\ pc' = IF d.panicked THEN "panicked" ELSE pc
        /\ UNCHANGED <<overflow_checks, files, project, fixed, io, batch, selection,
                       last_update>>

Next ==
    \/ Run
    \/ KeyDown
    \/ KeyUp
    \/ KeyTab
    \/ KeyToggle
    \/ KeyU
    \/ KeyQuit
    \/ KeyOther
    \/ Tick
    \/ \E i \in 1..MaxDeps, r \in {"ok", "err"} : FetchResult(i, r)

Spec == Init /\ [][Next]_vars

(***************************************************************************)
(* Properties of the selection state and of update_package_json, checked   *)
(* under Spec.                                                             *)
(***************************************************************************)
OtherSelected ==
    IF active_table = "Runtime" THEN dev_dependencies_table_state
    ELSE dependencies_table_state

ActiveToggles == IF active_table = "Runtime" THEN update_index ELSE dev_update_index

OtherToggles == IF active_table = "Runtime" THEN dev_update_index ELSE update_index

\* C1: whatever keys have been dispatched, each table with len > 0 rows has its
\* cursor set and in [0, len), and every index of each toggle set is in [0, len).
C1_CursorAndTogglesInRange ==
    /\ dependencies_len > 0 => dependencies_table_state \in 0..(dependencies_len - 1)
    /\ dev_dependencies_len > 0 =>
           dev_dependencies_table_state \in 0..(dev_dependencies_len - 1)
    /\ update_index \subseteq 0..(dependencies_len - 1)
    /\ dev_update_index \subseteq 0..(dev_dependencies_len - 1)

\* C2: with len > 0 rows in the active table and cursor c, Down sets the cursor to
\* (c + 1) mod len and Up sets it to (c - 1) mod len; the other cursor, both toggle
\* sets and the active table stay as they are.
C2_NextPreviousWrap ==
    [][ActiveLen > 0 =>
          /\ KeyDown => /\ ActiveSelected' = (ActiveSelected + 1) % ActiveLen
                        /\ UNCHANGED <<active_table, OtherSelected, update_index,
                                       dev_update_index>>
          /\ KeyUp => /\ ActiveSelected' = (ActiveSelected - 1) % ActiveLen
                      /\ UNCHANGED <<active_table, OtherSelected, update_index,
                                     dev_update_index>>]_vars

\* The cursor of a two-row runtime table has left row 0.
C2_Witness ==
    pc = "loop" /\ active_table = "Runtime" /\ dependencies_len = 2
                /\ dependencies_table_state = 1

\* C3: Tab flips the active table exactly when both tables have rows and changes
\* nothing of the selection state otherwise; cursors and toggle sets never change;
\* the active table is never an empty table while the other one has rows.
C3_SwitchTable ==
    /\ [][KeyTab =>
            /\ (active_table' # active_table) <=>
                   (dependencies_len > 0 /\ dev_dependencies_len > 0)
            /\ UNCHANGED <<dependencies_table_state, dev_dependencies_table_state,
                           update_index, dev_update_index>>]_vars
    /\ [](~(ActiveLen = 0 /\ dependencies_len + dev_dependencies_len > 0))

\* Tab has made Dev the active table of a manifest with runtime dependencies.
C3_Witness == active_table = "Dev" /\ dependencies_len > 0 /\ dev_dependencies_len > 0

\* C4: with a non-empty active table, Enter/Space flips the membership of exactly
\* the cursor index in the active table's toggle set; the other toggle set, the
\* cursors and the active table stay as they are.
C4_ToggleFlipsCursor ==
    [][(KeyToggle /\ ActiveLen > 0) =>
          /\ ActiveToggles' = (ActiveToggles \ {ActiveSelected})
                                  \cup ({ActiveSelected} \ ActiveToggles)
          /\ UNCHANGED <<OtherToggles, active_table, dependencies_table_state,
                         dev_dependencies_table_state>>]_vars

\* A row of a non-empty dev table is toggled while a runtime row is not.
C4_Witness ==
    /\ dev_dependencies_len = 2 /\ dev_update_index = {1}
    /\ dependencies_len > 0 /\ update_index = {}

\* C5: after construction the active table is Runtime if it has rows, else Dev if
\* that has rows; a non-empty table's cursor is 0, an empty one's is unset, and
\* both toggle sets are empty.
C5_InitialSelection ==
    pc = "new" =>
        /\ dependencies_len > 0 => active_table = "Runtime"
        /\ (dependencies_len = 0 /\ dev_dependencies_len > 0) => active_table = "Dev"
        /\ dependencies_table_state = (IF dependencies_len > 0 THEN 0 ELSE None)
        /\ dev_dependencies_table_state = (IF dev_dependencies_len > 0 THEN 0 ELSE None)
        /\ update_index = {} /\ dev_update_index = {}

\* A freshly constructed application whose manifest has rows in both tables.
C5_Witness ==
    pc = "new" /\ dependencies_len > 0 /\ dev_dependencies_len > 0
               /\ active_table = "Runtime"

\* C6: u with both toggle sets empty changes neither the in-memory manifest nor
\* any file, and performs no write.
C6_ApplyNothingToggled ==
    [][(KeyU /\ update_index = {} /\ dev_update_index = {}) =>
          /\ UNCHANGED <<project, files>>
          /\ last_update' = "noop"]_vars

\* u has been dispatched with nothing toggled, in a run given a directory.
C6_Witness ==
    last_update = "noop" /\ directory = "Some" /\ update_index = {}
                         /\ dev_update_index = {}

\* Whether every toggled row's package has a fetched version.
AllToggledFetched ==
    /\ \A i \in DOMAIN project.dependencies :
           (i - 1) \in update_index
               => Fetched(fetched_packages, project.dependencies[i].name) # {}
    /\ \A i \in DOMAIN project.devDependencies :
           (i - 1) \in dev_update_index
               => Fetched(fetched_packages, project.devDependencies[i].name) # {}

\* The value the claim gives a toggled row: the old range prefix, then latest.
Expected(row) ==
    (IF row.version # <<>> /\ Head(row.version) \in {"^", "~"}
     THEN <<Head(row.version)>> ELSE <<>>) \o Latest(row.name)

\* C7: after u with every toggled package fetched, each toggled row holds its old
\* range prefix followed by the fetched latest version, each other row holds its
\* old value, and the result is in the manifest file.
C7_ApplyUpdatesToggledRows ==
    [][(KeyU /\ ~(update_index = {} /\ dev_update_index = {}) /\ AllToggledFetched) =>
          /\ \A i \in DOMAIN project.dependencies :
                 project'.dependencies[i].version =
                     IF (i - 1) \in update_index
                     THEN Expected(project.dependencies[i])
                     ELSE project.dependencies[i].version
          /\ \A i \in DOMAIN project.devDependencies :
                 project'.devDependencies[i].version =
                     IF (i - 1) \in dev_update_index
                     THEN Expected(project.devDependencies[i])
                     ELSE project.devDependencies[i].version
          /\ files'[ManifestPath(directory)] = <<project'>>]_vars

\* C8: a fetch that completes with an error leaves the loop running and
\* fetched_packages without an entry for it.
C8_FetchErrorNonFatal ==
    [][\A i \in 1..MaxDeps :
          FetchResult(i, "err") => pc' = "loop" /\ fetched_packages' = fetched_packages]_vars

\* C11: a quit key ends the loop in the iteration that receives it, whatever is
\* pending or in flight, and changes nothing else; once the loop has ended no event
\* is dispatched and no fetch result is merged.
C11_QuitEndsLoopAtOnce ==
    /\ [][KeyQuit => pc' = "done" /\ UNCHANGED <<fetched_packages, stream, selection,
                                                  project, files>>]_vars
    /\ [][pc = "done" => UNCHANGED vars]_vars

\* The loop has ended on a quit key with a result merged and fetches in flight.
C11_Witness ==
    /\ pc = "done"
    /\ fetched_packages # {}
    /\ stream.in_flight # {}

C13_WriteGoesToLoadedPath ==
    [][/\ (KeyU /\ last_update' = "written") =>
              files'[ManifestPath(directory)] = <<project'>>
       /\ \A p \in DOMAIN files :
              p # ManifestPath(directory) => files'[p] = files[p]]_vars

\* C18: Down and Up on an active table without rows leave the whole selection
\* state as it is (the cursor stays unset) and do not end the loop.
C18_NextPreviousOnEmptyTable ==
    [][((KeyDown \/ KeyUp) /\ ActiveLen = 0) =>
          /\ UNCHANGED selection
          /\ pc' = pc]_vars

\* C19: Enter/Space on an active table without rows leaves both toggle sets as
\* they are, and u in a run whose tables have no rows changes no file and ends in
\* the early return.
C19_ToggleOnEmptyTable ==
    /\ [][(KeyToggle /\ ActiveLen = 0) => UNCHANGED <<update_index, dev_update_index>>]_vars
    /\ [][(KeyU /\ dependencies_len + dev_dependencies_len = 0) =>
             /\ UNCHANGED files
             /\ last_update' = "noop"]_vars

\* C20: u while some toggled row's package has no fetched version ends in a panic
\* and leaves every file as it was.
C20_ApplyWithUnfetchedPanics ==
    [][(KeyU /\ ~AllToggledFetched) =>
          /\ pc' = "panicked"
          /\ last_update' = "panicked"
          /\ UNCHANGED files]_vars

\* u has panicked after it had updated an earlier toggled row in memory: the file
\* still holds the manifest as loaded.
C20_Witness ==
    /\ last_update = "panicked"
    /\ files[ManifestPath(directory)] # <<project>>
    /\ files[ManifestPath(directory)] # <<>>

\* An input event: a key of the keyboard surface or any other key.
KeyInput == KeyDown \/ KeyUp \/ KeyTab \/ KeyToggle \/ KeyU \/ KeyQuit \/ KeyOther

\* C24: a tick leaves the selection state, fetched_packages and the manifest as
\* they are; a fetch result leaves the selection state and the manifest as they
\* are; no key changes fetched_packages; a key outside the keyboard surface
\* changes nothing.
C24_DispatchFrames ==
    /\ [][Tick => UNCHANGED <<selection, fetched_packages, project, files>>]_vars
    /\ [][(\E i \in 1..MaxDeps, r \in {"ok", "err"} : FetchResult(i, r)) =>
             UNCHANGED <<selection, project, files>>]_vars
    /\ [][KeyInput => UNCHANGED fetched_packages]_vars
    /\ [][KeyOther => UNCHANGED app]_vars

\* The loop runs with a row toggled off the first row and a version merged, so
\* that a tick, a key or a fetch result has something to change.
C24_Witness ==
    /\ pc = "loop"
    /\ update_index = {1}
    /\ fetched_packages # {}
    /\ stream.in_flight # {}

\* C29: u leaves both cursors, the active table and both toggle sets as they are,
\* and a u that has written yields a manifest that a second u, dispatched at
\* once, would leave as it is.
C29_ApplyKeepsSelection ==
    /\ [][KeyU => UNCHANGED selection]_vars
    /\ [][(KeyU /\ last_update' = "written") =>
             LET again == UpdateAll(project', update_index', dev_update_index',
                                    fetched_packages')
             IN  ~again.panicked /\ again.doc = project']_vars

\* u has written the update of a toggled row, and the toggle is still there.
C29_Witness ==
    /\ last_update = "written"
    /\ update_index # {} /\ dev_update_index # {}
    /\ files["cwd"] = <<project>>

\* The names of the manifest.
ManifestNames == {Submitted(project)[i] : i \in DOMAIN Submitted(project)}

\* C30: fetched_packages never has more entries than the manifest has rows
\* (runtime and dev together), and each of its keys is a name of the manifest.
C30_FetchedAtMostTotal ==
    /\ Cardinality(fetched_packages) <= dependencies_len + dev_dependencies_len
    /\ \A f \in fetched_packages : f.name \in ManifestNames

\* Every fetch of a manifest of three rows has been merged, two of them for the
\* same name.
C30_Witness ==
    /\ dependencies_len + dev_dependencies_len = 3
    /\ Cardinality({e \in stream.yielded : e.result = "ok"}) = 3
    /\ Cardinality(fetched_packages) = 2

(***************************************************************************)
(* The fetch stream on its own, polled to exhaustion, with more names than *)
(* the ceiling of either flow.  What the consumer does with a result is    *)
(* not part of this specification.                                         *)
(***************************************************************************)
\* Names submitted beyond the ceiling.
MaxExtra == 1

Digits == <<"0", "1", "2", "3", "4", "5", "6", "7", "8", "9">>

PipeName(i) == <<"p", Digits[(i \div 10) + 1], Digits[(i % 10) + 1]>>

\* A manifest of n dependencies, the first half of them runtime dependencies.
PipeManifest(n) ==
    LET row(i) == [name |-> PipeName(i), version |-> <<"1", ".", "0", ".", "0">>]
        r == n - (n \div 2)
    IN  [dependencies |-> [i \in 1..r |-> row(i)],
         devDependencies |-> [i \in 1..(n - r) |-> row(r + i)]]

InitPipe ==
    /\ flow \in {"interactive", "batch"}
    /\ pc = "stream"
    /\ directory = "None"
    /\ project \in {PipeManifest(n) : n \in 0..(Ceiling(flow) + MaxExtra)}
    /\ Startup

\* A poll in which no fetch completes: fetches are started, the poll is Pending.
StreamFills ==
    /\ pc \in {"stream", "fetching"}
    /\ stream' = Filled(stream, Len(Submitted(project)), Ceiling(flow))
    /\ stream' # stream
    /\ UNCHANGED <<pc, overflow_checks, files, project, fetched_packages, fixed, io, batch,
                   selection, last_update, frames>>

\* A poll in which fetch i completes with result r.
StreamYields(i, r) ==
    LET st == Filled(stream, Len(Submitted(project)), Ceiling(flow))
    IN  /\ pc = "stream"
        /\ i \in st.in_flight
        /\ r \in Results(st)
        /\ stream' = Yielded(st, i, r)
        /\ UNCHANGED <<pc, overflow_checks, files, project, fetched_packages, fixed, io,
                       batch, selection, last_update, frames>>

NextPipe ==
    \/ StreamFills
    \/ \E i \in 1..(InteractiveCeiling + MaxExtra), r \in {"ok", "err"} : StreamYields(i, r)

SpecPipe == InitPipe /\ [][NextPipe]_vars

\* C9: the fetches started and not yet completed never exceed the ceiling of the
\* flow (8 in the batch flow, 10 in the interactive flow).
C9_InFlightAtMostCeiling ==
    /\ flow = "batch" => Cardinality(stream.in_flight) <= 8
    /\ flow = "interactive" => Cardinality(stream.in_flight) <= 10

\* More names than the ceiling were submitted, and the buffer has been filled
\* up to the ceiling again after a result was yielded.
C9_Witness ==
    /\ Len(Submitted(project)) > Ceiling(flow)
    /\ Cardinality(stream.in_flight) = Ceiling(flow)
    /\ stream.yielded # {}

(***************************************************************************)
(* The batch flow (src/src/main.rs): the stream is collected into          *)
(* `metadata`, in completion order.                                        *)
(***************************************************************************)
InitBatch ==
    /\ flow = "batch"
    /\ pc = "fetching"
    /\ directory = "None"
    /\ project \in Manifests
    /\ Startup

\* collect() polls the stream: fetch i completes with result r and is pushed.
Collects(i, r) ==
    LET st == Filled(stream, Len(Submitted(project)), Ceiling(flow))
    IN  /\ pc = "fetching"
        /\ i \in st.in_flight
        /\ r \in Results(st)
        /\ stream' = Yielded(st, i, r)
        /\ metadata' = Append(metadata, [idx |-> i, result |-> r,
                                         name |-> Submitted(project)[i],
                                         latest |-> Latest(Submitted(project)[i])])
        /\ UNCHANGED <<pc, overflow_checks, files, project, fetched_packages, fixed, io,
                       reports, answer, selection, last_update, frames>>

\* The stream has ended and collect() returns the vector.
Collected ==
    /\ pc = "fetching"
    /\ Exhausted(stream, Len(Submitted(project)))
    /\ pc' = "classify"
    /\ UNCHANGED <<overflow_checks, files, project, fetched_packages, fixed, io, batch,
                   selection, stream, last_update, frames>>

(***************************************************************************)
(* main: the classification of the dependencies against `metadata`.        *)
(***************************************************************************)
\* char::is_numeric, on the characters version strings are made of.
IsNumeric(c) == \E i \in DOMAIN Digits : Digits[i] = c

DigitValue(c) == (CHOOSE i \in DOMAIN Digits : Digits[i] = c) - 1

\* The number a string of decimal digits denotes.
RECURSIVE Number(_)
Number(s) ==
    IF s = <<>> THEN 0
    ELSE 10 * Number(SubSeq(s, 1, Len(s) - 1)) + DigitValue(s[Len(s)])

\* The parts of s between its dots, cur being the part read so far.
RECURSIVE SplitDots(_, _)
SplitDots(s, cur) ==
    IF s = <<>> THEN <<cur>>
    ELSE IF Head(s) = "." THEN <<cur>> \o SplitDots(Tail(s), <<>>)
    ELSE SplitDots(Tail(s), Append(cur, Head(s)))

\* str::parse::<Version>: major.minor.patch, each a decimal number, is a version;
\* a string with a range symbol in front is not.
ParseVersion(s) ==
    LET parts == SplitDots(s, <<>>)
    IN  IF /\ Len(parts) = 3
           /\ \A k \in 1..3 : parts[k] # <<>> /\ \A j \in DOMAIN parts[k] : IsNumeric(parts[k][j])
        THEN [ok |-> TRUE, major |-> Number(parts[1]), minor |-> Number(parts[2]),
              patch |-> Number(parts[3])]
        ELSE [ok |-> FALSE, major |-> 0, minor |-> 0, patch |-> 0]

\* The first character of the raw version if it is not numeric.
RangeSymbol(raw) == IF raw # <<>> /\ ~IsNumeric(Head(raw)) THEN <<Head(raw)>> ELSE <<>>

\* raw_current_version.replace('^', "")
CurrentVersionOf(raw) == ReplaceChar(raw, "^", <<>>)

\* The bucket of a report: the first of the four tests that succeeds, else none.
Bucket(current, latest) ==
    IF latest.major = 0 THEN "pre_v1"
    ELSE IF latest.major > current.major THEN "major"
    ELSE IF latest.minor > current.minor THEN "minor"
    ELSE IF latest.patch > current.patch THEN "patch"
    ELSE "none"

\* index == dev_start_index: the dev indices take the lengths of the buckets.
DevIndexMarked(rs) ==
    [rs EXCEPT !.major_dev_index = Len(rs.major_updates),
               !.minor_dev_index = Len(rs.minor_updates),
               !.patch_dev_index = Len(rs.patch_updates),
               !.pre_v1_dev_index = Len(rs.pre_v1_updates)]

Pushed(rs, bucket, report) ==
    CASE bucket = "pre_v1" -> [rs EXCEPT !.pre_v1_updates = Append(@, report)]
      [] bucket = "major" -> [rs EXCEPT !.major_updates = Append(@, report)]
      [] bucket = "minor" -> [rs EXCEPT !.minor_updates = Append(@, report)]
      [] bucket = "patch" -> [rs EXCEPT !.patch_updates = Append(@, report)]
      [] OTHER -> rs

\* The inner loop for one dependency (its 0-based index, name and raw version) over
\* the results md[k..]: an Err ends the loop, an Ok for another name or with the
\* current version is passed over, a version that does not parse panics.
RECURSIVE Matched(_, _, _, _, _, _, _)
Matched(acc, index, dev_start_index, name, raw, md, k) ==
    IF acc.panicked \/ k > Len(md) THEN acc
    ELSE IF md[k].result = "err" THEN acc
    ELSE IF md[k].name # name THEN Matched(acc, index, dev_start_index, name, raw, md, k + 1)
    ELSE LET current_version == CurrentVersionOf(raw)
             latest_version == md[k].latest
             parsed_current == ParseVersion(current_version)
             parsed_latest == ParseVersion(latest_version)
             report == [package_name |-> name, current_version |-> current_version,
                        latest_version |-> latest_version, range_symbol |-> RangeSymbol(raw)]
             marked == IF index = dev_start_index THEN DevIndexMarked(acc.reports)
                       ELSE acc.reports
         IN  IF current_version = latest_version
             THEN Matched(acc, index, dev_start_index, name, raw, md, k + 1)
             ELSE IF ~parsed_current.ok \/ ~parsed_latest.ok
             THEN [acc EXCEPT !.panicked = TRUE]
             ELSE Matched([acc EXCEPT !.reports =
                               Pushed(marked, Bucket(parsed_current, parsed_latest), report)],
                          index, dev_start_index, name, raw, md, k + 1)

\* all_dependencies_iter: the rows of dependencies, then those of devDependencies.
AllDependencies(doc) == doc.dependencies \o doc.devDependencies

\* The outer loop, from row i (1-based) of all_dependencies_iter.
RECURSIVE ClassifiedFrom(_, _, _, _, _)
ClassifiedFrom(acc, rows, dev_start_index, md, i) ==
    IF acc.panicked \/ i > Len(rows) THEN acc
    ELSE ClassifiedFrom(
             Matched(acc, i - 1, dev_start_index, rows[i].name, rows[i].version, md, 1),
             rows, dev_start_index, md, i + 1)

Classified(doc, md) ==
    ClassifiedFrom([reports |-> NoReports, panicked |-> FALSE], AllDependencies(doc),
                   Len(doc.dependencies), md, 1)

\* PackageJson::update_dependency_version for each report of a bucket, in order.
RECURSIVE Applied(_, _, _)
Applied(doc, rs, i) ==
    IF i > Len(rs) THEN doc
    ELSE Applied(UpdateDependencyVersion(doc, rs[i].package_name, rs[i].latest_version,
                                         rs[i].range_symbol),
                 rs, i + 1)

\* The four printing loops: patch, minor, major, pre-v1.
AppliedAll(doc, rs) ==
    Applied(doc, rs.patch_updates \o rs.minor_updates \o rs.major_updates
                     \o rs.pre_v1_updates, 1)

\* The two nested loops over the dependencies and the collected results.
Classifies ==
    /\ pc = "classify"
    /\ LET c == Classified(project, metadata)
       IN  /\ reports' = c.reports
           /\ pc' = IF c.panicked THEN "panicked" ELSE "report"
    /\ UNCHANGED <<overflow_checks, files, project, fetched_packages, fixed, io, metadata,
                   answer, selection, stream, last_update, frames>>

\* The sections are printed and every report is applied to the document.
Reports ==
    /\ pc = "report"
    /\ project' = AppliedAll(project, reports)
    /\ pc' = "prompt"
    /\ UNCHANGED <<overflow_checks, files, fetched_packages, fixed, io, batch, selection,
                   stream, last_update, frames>>

\* What reading a line at the prompt gives: y or Y, n or N, any other line, the
\* end of the input, or a line that is not UTF-8.
Lines == {"y", "n", "other", "eof", "invalid"}

\* print_update_prompt reads a line; after it has returned, main writes the file.
Answers(line) ==
    /\ pc = "prompt"
    /\ answer' = line
    /\ frames' = 1 - frames
    /\ CASE line \in {"y", "eof"} ->
               /\ files' = Written(files, directory, project)
               /\ last_update' = "written"
               /\ pc' = "exit_0"
         [] line = "n" ->
               /\ pc' = "exit_1"
               /\ UNCHANGED <<files, last_update>>
         [] line = "invalid" ->
               /\ pc' = "panicked"
               /\ UNCHANGED <<files, last_update>>
         [] OTHER -> UNCHANGED <<pc, files, last_update>>
    /\ UNCHANGED <<overflow_checks, project, fetched_packages, fixed, io, metadata, reports,
                   selection, stream>>

NextBatch ==
    \/ StreamFills
    \/ \E i \in 1..MaxDeps, r \in {"ok", "err"} : Collects(i, r)
    \/ Collected
    \/ Classifies
    \/ Reports
    \/ \E line \in Lines : Answers(line)

\* The steps of collect().
Collecting ==
    \/ StreamFills
    \/ \E i \in 1..MaxDeps, r \in {"ok", "err"} : Collects(i, r)
    \/ Collected

\* The runtime keeps polling the task and every request ends, with a response or
\* with an error.  Nothing is assumed of the input at the prompt.
SpecBatch == InitBatch /\ [][NextBatch]_vars /\ WF_vars(Collecting)

\* The results in `metadata` for submission i.
ResultsFor(i) == {k \in DOMAIN metadata : metadata[k].idx = i}

\* C10: every submitted name (one per runtime and per dev dependency key) ends up
\* with exactly one result in the collected sequence, whatever the completion order
\* and whichever fetches fail.
C10_EveryNameYieldsOneResult ==
    /\ [](\A i \in DOMAIN Submitted(project) : Cardinality(ResultsFor(i)) <= 1)
    /\ <>[](\A i \in DOMAIN Submitted(project) : Cardinality(ResultsFor(i)) = 1)
    /\ <>(pc = "classify")

\* The collection has ended with a failed fetch followed by other results.
C10_Witness ==
    /\ pc = "classify"
    /\ Len(metadata) = 3
    /\ metadata[1].result = "err"
    /\ metadata[2].result = "ok" /\ metadata[3].result = "ok"

\* The reports of a bucket.
BucketReports(rs, bucket) ==
    CASE bucket = "pre_v1" -> rs.pre_v1_updates
      [] bucket = "major" -> rs.major_updates
      [] bucket = "minor" -> rs.minor_updates
      [] bucket = "patch" -> rs.patch_updates
      [] OTHER -> <<>>

\* The version of a row without its range prefix.
Unprefixed(raw) == SubSeq(raw, Len(RangeSymbol(raw)) + 1, Len(raw))

\* The bucket the rules give a dependency row for a latest version: none if the
\* two versions are the same, else that of the first rule that applies.
BucketOf(row, latest) ==
    LET c == ParseVersion(Unprefixed(row.version))
        l == ParseVersion(latest)
    IN  CASE Unprefixed(row.version) = latest -> "none"
          [] l.major = 0 -> "pre_v1"
          [] l.major > c.major -> "major"
          [] l.minor > c.minor -> "minor"
          [] l.patch > c.patch -> "patch"
          [] OTHER -> "none"

\* Whether the fetch of submission i succeeded.
FetchSucceeded(i) == \E k \in DOMAIN metadata : metadata[k].idx = i /\ metadata[k].result = "ok"

\* C16: when the classification has ended, every dependency whose own fetch
\* succeeded and whose latest version the rules put in a bucket has a report in
\* that bucket, wherever a failed result stands in the collected sequence.
C16_FailedFetchExcludesOnlyItself ==
    pc = "report" =>
        \A i \in DOMAIN AllDependencies(project) :
            LET row == AllDependencies(project)[i]
                bucket == BucketOf(row, Latest(row.name))
            IN  (FetchSucceeded(i) /\ bucket # "none") =>
                    \E k \in DOMAIN BucketReports(reports, bucket) :
                        BucketReports(reports, bucket)[k].package_name = row.name

\* C17: the file is written exactly when the line read at the prompt is y; n ends
\* the run with status 1 and without a write; any other line prompts again.
C17_WriteOnlyAfterYes ==
    [][\A line \in Lines :
          Answers(line) =>
              /\ (last_update' = "written") <=> (line = "y")
              /\ (line = "y") => files'["cwd"] = <<project>>
              /\ (line = "n") => (pc' = "exit_1" /\ UNCHANGED files)
              /\ (line = "other") => (pc' = "prompt" /\ UNCHANGED files)]_vars

\* The number of reports of a bucket that the runtime dependencies give: the
\* bucket as it stands when the outer loop has gone through `dependencies` alone.
RuntimeEntries(bucket) ==
    Len(BucketReports(Classified([dependencies |-> project.dependencies,
                                  devDependencies |-> <<>>], metadata).reports, bucket))

DevIndex(rs, bucket) ==
    CASE bucket = "pre_v1" -> rs.pre_v1_dev_index
      [] bucket = "major" -> rs.major_dev_index
      [] bucket = "minor" -> rs.minor_dev_index
      [] bucket = "patch" -> rs.patch_dev_index

\* C26: when the classification has ended, the dev index of each of the four
\* buckets is the number of the bucket's reports that come from runtime
\* dependencies, so the reports from the index on are those of dev dependencies.
C26_DevIndexIsRuntimeCount ==
    pc = "report" =>
        \A b \in {"pre_v1", "major", "minor", "patch"} :
            DevIndex(reports, b) = RuntimeEntries(b)

\* The reports of a bucket that name a package.
ReportsNaming(rs, bucket, name) ==
    {k \in DOMAIN BucketReports(rs, bucket) : BucketReports(rs, bucket)[k].package_name = name}

\* The dependency entries of a name that the rules give a bucket.
EntriesFor(bucket, name) ==
    {i \in DOMAIN AllDependencies(project) :
        /\ AllDependencies(project)[i].name = name
        /\ BucketOf(AllDependencies(project)[i], Latest(name)) = bucket}

\* C27: when every fetch has succeeded and the classification has ended, each
\* bucket holds, for each package name, as many reports as there are dependency
\* entries of that name which the rules give that bucket: one report for each
\* entry with a newer version, in one bucket, also for a name that is in both
\* mappings and has been fetched twice.
C27_OneReportPerEntry ==
    (pc = "report" /\ \A k \in DOMAIN metadata : metadata[k].result = "ok") =>
        \A b \in {"pre_v1", "major", "minor", "patch"} :
            \A n \in DOMAIN PkgNames :
                Cardinality(ReportsNaming(reports, b, PkgNames[n]))
                    = Cardinality(EntriesFor(b, PkgNames[n]))

(***************************************************************************)
(* The classification on its own: one dependency, pinned or with a caret   *)
(* or a tilde in front, and the result of its fetch, with the numbers of   *)
(* both versions drawn from sets that have 0 and a two-digit number.       *)
(***************************************************************************)
ClassifyMajors == {0, 1, 2}
ClassifyMinors == {0, 9, 10}
ClassifyPatches == {0, 1}
ClassifyPrefixes == {<<>>, <<"^">>, <<"~">>}

\* u64::to_string
RECURSIVE Decimal(_)
Decimal(n) ==
    IF n < 10 THEN <<Digits[n + 1]>>
    ELSE Decimal(n \div 10) \o <<Digits[(n % 10) + 1]>>

VersionString(major, minor, patch) ==
    Decimal(major) \o <<".">> \o Decimal(minor) \o <<".">> \o Decimal(patch)

ClassifyVersions ==
    {VersionString(ma, mi, pa) :
        ma \in ClassifyMajors, mi \in ClassifyMinors, pa \in ClassifyPatches}

\* main after collect() has returned the one result.
InitClassify ==
    /\ flow = "batch"
    /\ pc = "classify"
    /\ directory = "None"
    /\ \E prefix \in ClassifyPrefixes, current \in ClassifyVersions :
           project = [dependencies |-> <<[name |-> NameA, version |-> prefix \o current]>>,
                      devDependencies |-> <<>>]
    /\ \E latest \in ClassifyVersions :
           metadata = <<[idx |-> 1, result |-> "ok", name |-> NameA, latest |-> latest]>>
    /\ stream = [launched |-> 1, in_flight |-> {},
                 yielded |-> {[idx |-> 1, result |-> "ok"]}]
    /\ overflow_checks = "unknown"
    /\ files = [p \in {"cwd", "dir"} |-> IF p = "cwd" THEN <<project>> ELSE <<>>]
    /\ fetched_packages = {}
    /\ dependencies_len = 1
    /\ dev_dependencies_len = 0
    /\ active_table = "Runtime"
    /\ dependencies_table_state = 0
    /\ dev_dependencies_table_state = None
    /\ update_index = {}
    /\ dev_update_index = {}
    /\ reports = NoReports
    /\ answer = "none"
    /\ frames = 0
    /\ last_update = "none"
    /\ NotRunning

NextClassify ==
    \/ Classifies
    \/ Reports

SpecClassify == InitClassify /\ [][NextClassify]_vars

\* C15: once the dependency has been classified, the bucket the rules give it
\* (Pre-1.0 if the latest major is 0, else Major, Minor or Patch by the first of
\* the three numbers of latest that is greater, none if the versions are equal or
\* no rule applies) holds one report for it and every other bucket none.
C15_ClassifiedByFirstRule ==
    pc # "classify" =>
        LET row == files["cwd"][1].dependencies[1]
            bucket == BucketOf(row, metadata[1].latest)
        IN  /\ pc # "panicked"
            /\ \A b \in {"pre_v1", "major", "minor", "patch"} :
                   Len(BucketReports(reports, b)) = (IF b = bucket THEN 1 ELSE 0)

\* C25: once the dependency has been classified, a latest version with major 0
\* has put it in the Pre-1.0 bucket, however its current version compares with
\* the latest: lower, equal or higher.
C25_LatestMajorZeroIsPreV1 ==
    (pc # "classify" /\ ParseVersion(metadata[1].latest).major = 0) =>
        /\ pc # "panicked"
        /\ Len(reports.pre_v1_updates) = 1
        /\ reports.pre_v1_updates[1].package_name = NameA

(***************************************************************************)
(* update_dependency_version on its own (Project::update_dependency_version *)
(* of the interactive flow; PackageJson::update_dependency_version of the  *)
(* batch flow has the same body), called with any name, version and range  *)
(* prefix on documents whose keys include a scoped name, a sibling in the  *)
(* same scope and a name with a tilde.                                     *)
(***************************************************************************)
NameSibling == <<"@", "s", "/", "d">>
NameTilde == <<"a", "~", "1">>
NameAbsent == <<"z">>

\* The keys the documents are drawn from, in the key order of the map.
UpdateNames == <<NameScoped, NameSibling, NameA, NameTilde>>

\* The elements of names whose positions are in S, in order.
RECURSIVE PickFrom(_, _, _)
PickFrom(names, S, i) ==
    IF i > Len(names) THEN <<>>
    ELSE (IF i \in S THEN <<names[i]>> ELSE <<>>) \o PickFrom(names, S, i + 1)

UpdateTable(table, S) ==
    LET ns == PickFrom(UpdateNames, S, 1)
    IN  [i \in 1..Len(ns) |-> [name |-> ns[i], version |-> CurrentVersion(table, ns[i])]]

UpdateManifests ==
    LET sets == SUBSET (1..Len(UpdateNames))
    IN  {[dependencies |-> UpdateTable("Runtime", rd[1]),
          devDependencies |-> UpdateTable("Dev", rd[2])] :
            rd \in {x \in sets \X sets : Cardinality(x[1]) + Cardinality(x[2]) <= MaxDeps}}

\* The arguments of a call.
CallNames == {UpdateNames[i] : i \in DOMAIN UpdateNames} \cup {NameAbsent}
CallVersions == {Latest(NameA)}
CallPrefixes == {<<>>, <<"^">>, <<"~">>}

InitUpdate ==
    /\ flow = "interactive"
    /\ pc = "update"
    /\ directory = "None"
    /\ project \in UpdateManifests
    /\ Startup

\* One call of update_dependency_version on the document.
UpdateCalled(name, version, range_prefix) ==
    /\ pc = "update"
    /\ project' = UpdateDependencyVersion(project, name, version, range_prefix)
    /\ frames' = 1 - frames
    /\ UNCHANGED <<pc, overflow_checks, files, fetched_packages, fixed, io, batch, selection,
                   stream, last_update>>

NextUpdate ==
    \E name \in CallNames, version \in CallVersions, range_prefix \in CallPrefixes :
        UpdateCalled(name, version, range_prefix)

SpecUpdate == InitUpdate /\ [][NextUpdate]_vars

\* The rows of a mapping keyed name.
Keyed(table, name) == {i \in DOMAIN table : table[i].name = name}

\* What the claim says a call leaves behind: the keys of both mappings as they
\* were and in their order; the value of the runtime entry keyed name, or else of
\* the dev entry keyed name, replaced by the prefix followed by the version; every
\* other value as it was.
ReplacedAtMostOne(doc, after, name, version, range_prefix) ==
    LET rt == Keyed(doc.dependencies, name)
        dv == Keyed(doc.devDependencies, name)
        value == range_prefix \o version
    IN  /\ DOMAIN after.dependencies = DOMAIN doc.dependencies
        /\ DOMAIN after.devDependencies = DOMAIN doc.devDependencies
        /\ \A i \in DOMAIN doc.dependencies :
               /\ after.dependencies[i].name = doc.dependencies[i].name
               /\ after.dependencies[i].version =
                      IF i \in rt THEN value ELSE doc.dependencies[i].version
        /\ \A i \in DOMAIN doc.devDependencies :
               /\ after.devDependencies[i].name = doc.devDependencies[i].name
               /\ after.devDependencies[i].version =
                      IF rt = {} /\ i \in dv THEN value ELSE doc.devDependencies[i].version

\* C14: a call of update_dependency_version(name, version, prefix) replaces the
\* value of the runtime entry keyed name if there is one, else of the dev entry
\* keyed name if there is one, else nothing, by prefix followed by version; it
\* adds, removes and reorders no key and leaves every other value as it was.
C14_UpdateReplacesAtMostOneEntry ==
    [][\A name \in CallNames, version \in CallVersions, range_prefix \in CallPrefixes :
          UpdateCalled(name, version, range_prefix) =>
              ReplacedAtMostOne(project, project', name, version, range_prefix)]_vars

(***************************************************************************)
(* The event loop with its sources (Application::run and event_loop): the  *)
(* channel, the producer task that sends key and tick events into it, the  *)
(* biased select! over the channel and the fetch stream, and the terminal  *)
(* that run claims and restores.                                           *)
(***************************************************************************)
\* mpsc::channel(64)
ChannelCapacity == 64
\* The events the model lets wait in the channel before the producer's send waits.
MaxPending == 2
\* The dependencies of the manifests the loop is run on.
MaxLoopDeps == 2

\* The keys by what the loop does with them, and the tick.
Keys == {"Down", "Up", "Tab", "Toggle", "U", "Quit", "Other"}

InitLoop ==
    /\ flow = "interactive"
    /\ pc = "new"
    /\ directory = "None"
    /\ project \in {m \in Manifests : Len(Submitted(m)) <= MaxLoopDeps}
    /\ Startup

\* The hook run sets with std::panic::set_hook: it leaves the alternate screen
\* and raw mode whenever a thread of the process panics.
Hook(panics) ==
    IF panics
    THEN terminal' = "restored" /\ restorations' = restorations + 1
    ELSE UNCHANGED <<terminal, restorations>>

\* run: claim_terminal succeeds, the hook is set, and event_loop makes the
\* channel and spawns the producer, which owns the sender.
Runs ==
    /\ pc = "new"
    /\ pc' = "loop"
    /\ terminal' = "claimed"
    /\ tx' = "open"
    /\ UNCHANGED <<overflow_checks, files, project, fetched_packages, fixed, batch,
                   selection, stream, last_update, frames, rx, restorations>>

\* claim_terminal()? returns the error: run ends before the loop.
ClaimFails ==
    /\ pc = "new"
    /\ pc' = "failed"
    /\ UNCHANGED <<overflow_checks, files, project, fetched_packages, fixed, io, batch,
                   selection, stream, last_update, frames>>

\* tx.send(..).await: there is room while the channel holds fewer than its capacity.
HasRoom(queue) == Len(queue) < Min(ChannelCapacity, MaxPending)

\* The producer reads a key and sends it.  Once event_loop has returned the
\* receiver is gone, the send is an Err and its expect panics in the producer.
ProducerKey(key) ==
    /\ tx = "open"
    /\ \/ /\ pc = "loop"
          /\ HasRoom(rx)
          /\ rx' = Append(rx, key)
          /\ UNCHANGED <<tx, terminal, restorations>>
       \/ /\ pc = "done"
          /\ tx' = "dropped"
          /\ Hook(TRUE)
          /\ UNCHANGED rx
    /\ UNCHANGED <<pc, overflow_checks, files, project, fetched_packages, fixed, batch,
                   selection, stream, last_update, frames>>

\* The producer sends a tick when tick_rate has elapsed.
ProducerTick ==
    /\ tx = "open"
    /\ pc = "loop"
    /\ HasRoom(rx)
    /\ rx' = Append(rx, "Tick")
    /\ UNCHANGED <<pc, overflow_checks, files, project, fetched_packages, fixed, batch,
                   selection, stream, last_update, frames, tx, terminal, restorations>>

\* event::poll or event::read is an Err: the expect panics in the producer
\* task, the hook runs, the task ends and its sender is dropped.  The process
\* and the control loop go on.
ProducerPanics ==
    /\ tx = "open"
    /\ pc \in {"loop", "done"}
    /\ tx' = "dropped"
    /\ Hook(TRUE)
    /\ UNCHANGED <<pc, overflow_checks, files, project, fetched_packages, fixed, batch,
                   selection, stream, last_update, frames, rx>>

\* The first arm of select!: rx.recv() is ready with the oldest event.
Receives(event) ==
    /\ Iteration
    /\ rx # <<>>
    /\ Head(rx) = event
    /\ rx' = Tail(rx)
    /\ UNCHANGED tx

RecvDown ==
    /\ Receives("Down")
    /\ InModel(NextIndex(ActiveSelected, ActiveLen))
    /\ Checked(NextOverflows(ActiveSelected, ActiveLen), next)
    /\ Hook(pc' = "panicked")
    /\ UNCHANGED <<files, project, fetched_packages, fixed, batch, stream, last_update>>

RecvUp ==
    /\ Receives("Up")
    /\ InModel(PreviousIndex(ActiveSelected, ActiveLen))
    /\ Checked(PreviousOverflows(ActiveSelected, ActiveLen), previous)
    /\ Hook(pc' = "panicked")
    /\ UNCHANGED <<files, project, fetched_packages, fixed, batch, stream, last_update>>

RecvTab ==
    /\ Receives("Tab")
    /\ switch_table
    /\ UNCHANGED <<pc, overflow_checks, files, project, fetched_packages, fixed, batch,
                   stream, last_update, terminal, restorations>>

RecvToggle ==
    /\ Receives("Toggle")
    /\ toggle_update
    /\ UNCHANGED <<pc, overflow_checks, files, project, fetched_packages, fixed, batch,
                   stream, last_update, terminal, restorations>>

RecvU ==
    /\ Receives("U")
    /\ update_package_json
    /\ Hook(pc' = "panicked")
    /\ UNCHANGED <<overflow_checks, fetched_packages, fixed, batch, selection, stream>>

RecvQuit ==
    /\ Receives("Quit")
    /\ pc' = "done"
    /\ UNCHANGED <<overflow_checks, files, project, fetched_packages, fixed, batch,
                   selection, stream, last_update, terminal, restorations>>

\* Any other key, or a tick: nothing but the next frame.
RecvOther(event) ==
    /\ event \in {"Other", "Tick"}
    /\ Receives(event)
    /\ UNCHANGED <<pc, overflow_checks, files, project, fetched_packages, fixed, batch,
                   selection, stream, last_update, terminal, restorations>>

RecvNotReadyUnbiased(queue) == TRUE

\* rx.recv() is not ready (the channel is empty) or is None (empty and closed):
\* select! goes on to the second arm.
RecvNotReady(queue) == queue = <<>>

\* The second arm is polled and no fetch completes: the fetches are started and
\* select! waits.
Launches ==
    /\ pc = "loop"
    /\ RecvNotReady(rx)
    /\ stream' = Filled(stream, Len(Submitted(project)), Ceiling(flow))
    /\ stream' # stream
    /\ UNCHANGED <<pc, overflow_checks, files, project, fetched_packages, fixed, io, batch,
                   selection, last_update, frames>>

\* The second arm: package_updates.next() is ready with the result of fetch i.
Polled(i, r) ==
    /\ RecvNotReady(rx)
    /\ FetchResult(i, r)
    /\ UNCHANGED <<rx, tx>>
    /\ Hook(pc' = "panicked")

BreaksOnExhausted ==
    /\ Iteration
    /\ rx = <<>>
    /\ Exhausted(stream, Len(Submitted(project)))
    /\ pc' = "done"
    /\ UNCHANGED <<overflow_checks, files, project, fetched_packages, fixed, io, batch,
                   selection, stream, last_update>>

\* else => break: recv() is None and next() is None.
Breaks ==
    /\ Iteration
    /\ rx = <<>>
    /\ tx = "dropped"
    /\ Exhausted(stream, Len(Submitted(project)))
    /\ pc' = "done"
    /\ UNCHANGED <<overflow_checks, files, project, fetched_packages, fixed, io, batch,
                   selection, stream, last_update>>

\* run after event_loop: restore_terminal succeeds and run returns Ok.
Restores ==
    /\ pc = "done"
    /\ pc' = "exited"
    /\ terminal' = "restored"
    /\ restorations' = restorations + 1
    /\ UNCHANGED <<overflow_checks, files, project, fetched_packages, fixed, batch,
                   selection, stream, last_update, frames, rx, tx>>

\* restore_terminal()? returns the error.
RestoreFails ==
    /\ pc = "done"
    /\ pc' = "failed"
    /\ UNCHANGED <<overflow_checks, files, project, fetched_packages, fixed, io, batch,
                   selection, stream, last_update, frames>>

Producer ==
    \/ \E key \in Keys : ProducerKey(key)
    \/ ProducerTick
    \/ ProducerPanics

ControlLoop ==
    \/ RecvDown
    \/ RecvUp
    \/ RecvTab
    \/ RecvToggle
    \/ RecvU
    \/ RecvQuit
    \/ \E event \in {"Other", "Tick"} : RecvOther(event)
    \/ Launches
    \/ \E i \in 1..MaxLoopDeps, r \in {"ok", "err"} : Polled(i, r)
    \/ Breaks

NextLoop ==
    \/ Runs
    \/ ClaimFails
    \/ Producer
    \/ ControlLoop
    \/ Restores
    \/ RestoreFails

SpecLoop == InitLoop /\ [][NextLoop]_vars

\* Both sources are drained: the channel is closed and empty, the fetch stream
\* has ended.
Drained ==
    /\ tx = "dropped"
    /\ rx = <<>>
    /\ Exhausted(stream, Len(Submitted(project)))

\* C21: an iteration of the loop with an event in the channel receives that event,
\* the oldest, and takes no fetch result; an iteration takes a fetch result only
\* with the channel empty, and then one result and no event; an iteration that
\* does neither is the one that ends the loop with both sources drained.
C21_EventsBeforeFetchResults ==
    [][(pc = "loop" /\ frames' # frames) =>
          IF rx # <<>>
          THEN /\ rx' = Tail(rx)
               /\ stream' = stream
               /\ fetched_packages' = fetched_packages
          ELSE /\ rx' = rx
               /\ \/ Cardinality(stream'.yielded) = Cardinality(stream.yielded) + 1
                  \/ Drained /\ pc' = "done" /\ stream' = stream]_vars

\* An event waits in the channel while fetches are in flight and others have
\* been yielded.
C21_Witness ==
    /\ pc = "loop"
    /\ rx # <<>>
    /\ stream.in_flight # {}
    /\ stream.yielded # {}
    /\ fetched_packages # {}

\* C23: the loop ends by break only on a quit key or with both sources drained
\* (the end of the fetch stream alone, or the closed channel alone, does not end
\* it), and with both sources drained the step the loop takes is the break.
C23_BreakIffDrained ==
    /\ [][(pc = "loop" /\ pc' = "done") =>
             \/ rx # <<>> /\ Head(rx) = "Quit"
             \/ Drained]_vars
    /\ [][(pc = "loop" /\ Drained) => pc' = "done"]_vars

\* The loop has ended with both sources drained and every dependency fetched.
C23_Witness ==
    /\ pc = "done"
    /\ Drained
    /\ Len(Submitted(project)) = MaxLoopDeps
    /\ Cardinality(stream.yielded) = MaxLoopDeps

\* C28: while the loop runs the terminal is claimed; when the run has ended in a
\* panic the terminal has been restored; when run has returned Ok the terminal
\* has been restored, once.
C28_TerminalRestoredOnEveryExit ==
    /\ pc = "loop" => terminal = "claimed" /\ restorations = 0
    /\ pc = "panicked" => terminal = "restored"
    /\ pc = "exited" => terminal = "restored" /\ restorations = 1

\* The second arm of select! taking a result.
Polling == \E i \in 1..MaxLoopDeps, r \in {"ok", "err"} : Polled(i, r)

\* The runtime polls the task of the control loop again whenever one of the arms
\* of its select! is ready, and a loop that comes to select! with an empty channel
\* again and again does take the results that the requests in flight end with.
\* Nothing is assumed of the keyboard nor of the pace of the producer.
SpecLoopFair == SpecLoop /\ WF_vars(ControlLoop) /\ SF_vars(Polling)

\* No quit key has been sent and the run has not ended.
Running ==
    /\ pc \in {"new", "loop"}
    /\ \A k \in DOMAIN rx : rx[k] # "Quit"

\* The result of fetch i has been merged into fetched_packages.
Merged(i) ==
    /\ i \in DOMAIN Submitted(project)
    /\ \E f \in fetched_packages : f.name = Submitted(project)[i]

\* C22: in a run that goes on for ever without a quit key, every fetch in
\* flight is in the end merged into fetched_packages, whatever events the
\* producer sends.
C22_FetchResultsNotStarved ==
    []Running => \A i \in 1..MaxLoopDeps : (i \in stream.in_flight) ~> Merged(i)

====
